---- MODULE Spec2Model ----
(***************************************************************************)
(* A model of ctsm (create TypeScript module): the argument parser and its *)
(* flag accessors (args.ts), the template and confirmation utilities       *)
(* (util.ts), the version-control identity lookup (git.ts) and the         *)
(* orchestrating script (index.ts).                                        *)
(*                                                                         *)
(* A JavaScript string is a sequence of symbols; a symbol is one character *)
(* ("-", "=", " ", "\n", a letter), except "user." which stands for the    *)
(* five characters u s e r . taken together, and the words of the script's *)
(* command lines and messages ("lib", "npm", "bun", ...), taken whole.     *)
(***************************************************************************)
EXTENDS Integers, Sequences, FiniteSets, TLC

VARIABLES
    pc,             \* position of the control flow
    argv,           \* the command-line tokens handed to parse
    flags,          \* Flags.map, once parsed
    args,           \* the positional list, once parsed
    strings,        \* the text block handed to code
    codeOut,        \* what code returned
    acceptDefault,  \* confirm's options.acceptDefault
    answer,         \* the line the operator typed
    result,         \* what confirm returned
    gitExit,        \* exit code of `git config --get-regexp user.`
    text,           \* its output
    user,           \* what getGitUser returned
    probablyIsThisProject,  \* whether the working directory is empty
    directoryName,          \* the first positional, or its default
    SKIP_CONFIRMATION,      \* the y flag
    PACKAGE_MANAGER,        \* the p flag
    realPackageDirectory,   \* the target directory
    moduleName,             \* the project name
    confirmSt,      \* the confirmation prompt: idle, prompting, accepted, rejected, skipped
    gitSt,          \* the identity lookup: idle, running, done
    fileSt,         \* each Bun.write: idle, writing, written, failed
    installSt,      \* the dependency install: idle, running, done, failed
    initSt,         \* git init: idle, running, done, failed
    stderr,         \* the lines printed on the error stream
    exitCode        \* the exit code of the process, -1 while it runs

parseVars == <<argv, flags, args>>
codeVars == <<strings, codeOut>>
confirmVars == <<acceptDefault, answer, result>>
gitVars == <<gitExit, text, user>>
mainVars == <<probablyIsThisProject, directoryName, SKIP_CONFIRMATION, PACKAGE_MANAGER,
              realPackageDirectory, moduleName>>
stepVars == <<confirmSt, gitSt, fileSt, installSt, initSt>>
exitVars == <<stderr, exitCode>>

vars == <<pc, parseVars, codeVars, confirmVars, gitVars, mainVars, stepVars, exitVars>>

(***************************************************************************)
(* Bounds of the model.                                                    *)
(***************************************************************************)
MaxArgvChars == 6   \* characters of a command line, all tokens together
MaxArgs == 3        \* tokens of a command line
MaxCodeLen == 5     \* characters of a text block handed to code
MaxAnswerLen == 3   \* characters of an answer typed at the prompt
MaxGitLen == 4      \* symbols of the output of git config

(***************************************************************************)
(* Strings.                                                                *)
(***************************************************************************)
Whitespace == {" ", "\t", "\n"}

SeqsUpTo(S, n) == UNION {[1..m -> S] : m \in 0..n}

\* String.prototype.slice(n), 0 <= n
Slice(s, n) == SubSeq(s, n + 1, Len(s))

\* String.prototype.startsWith(p)
StartsWith(s, p) == Len(s) >= Len(p) /\ SubSeq(s, 1, Len(p)) = p

\* String.prototype.indexOf(c), 1-based, 0 when c does not occur
IndexOf(s, c) ==
    IF \E i \in 1..Len(s) : s[i] = c
    THEN CHOOSE i \in 1..Len(s) : s[i] = c /\ \A j \in 1..(i - 1) : s[j] # c
    ELSE 0

RECURSIVE Split(_, _)
\* String.prototype.split(c): every segment between occurrences of c
Split(s, c) ==
    LET i == IndexOf(s, c)
    IN  IF i = 0 THEN <<s>>
        ELSE <<SubSeq(s, 1, i - 1)>> \o Split(Slice(s, i), c)

RECURSIVE Join(_, _)
\* Array.prototype.join(sep)
Join(parts, sep) ==
    IF Len(parts) = 0 THEN <<>>
    ELSE IF Len(parts) = 1 THEN parts[1]
    ELSE parts[1] \o sep \o Join(Tail(parts), sep)

(***************************************************************************)
(* args.ts: Flags and parse.                                               *)
(***************************************************************************)
\* a value of Flags.map: string | boolean
BoolValue(b) == [type |-> "boolean", b |-> b]
StrValue(s) == [type |-> "string", s |-> s]

\* new Flags(): an empty Map
NewFlags == [k \in {} |-> BoolValue(TRUE)]

FlagsSetIfAbsent(map, key, value) ==
    [k \in DOMAIN map \cup {key} |-> IF k \in DOMAIN map THEN map[k] ELSE value]

\* Flags.set
FlagsSet(map, key, value) ==
    [k \in DOMAIN map \cup {key} |-> IF k = key THEN value ELSE map[k]]

\* Flags.size
FlagsSize(map) == Cardinality(DOMAIN map)

PrefixLengthLongOnly(arg) ==
    IF StartsWith(arg, <<"-", "-">>) THEN 2 ELSE 0

\* which branch of parse's loop takes arg, as the length of the prefix it
\* slices off: 2 ('--'), 1 ('-'), 0 (positional)
PrefixLength(arg) ==
    IF StartsWith(arg, <<"-", "-">>) THEN 2
    ELSE IF StartsWith(arg, <<"-">>) THEN 1
    ELSE 0

ValueOrTrueAlwaysTrue(kv) == BoolValue(TRUE)

\* value ?? true, for [key, value] = (...).split('=')
ValueOrTrue(kv) ==
    IF Len(kv) >= 2 THEN StrValue(kv[2]) ELSE BoolValue(TRUE)

IsFalsyKeyNever(key) == FALSE

\* !key
IsFalsyKey(key) == key = <<>>

\* one iteration of parse's loop over a pair <<flags, args>>
ParseArg(fa, arg) ==
    LET n == PrefixLength(arg)
        kv == Split(Slice(arg, n), "=")
        key == kv[1]
    IN  IF n > 0
        THEN IF IsFalsyKey(key) THEN fa
             ELSE <<FlagsSet(fa[1], key, ValueOrTrue(kv)), fa[2]>>
        ELSE <<fa[1], Append(fa[2], arg)>>

RECURSIVE ParseLoop(_, _)
ParseLoop(fa, rest) ==
    IF rest = <<>> THEN fa
    ELSE ParseLoop(ParseArg(fa, Head(rest)), Tail(rest))

\* parse(argv): [flags, args]
parse(tokens) == ParseLoop(<<NewFlags, <<>>>>, tokens)

(***************************************************************************)
(* util.ts: code (dedent) and confirm.                                     *)
(***************************************************************************)
RECURSIVE TrimEnd(_)
\* String.prototype.trimEnd()
TrimEnd(s) ==
    IF s # <<>> /\ s[Len(s)] \in Whitespace THEN TrimEnd(SubSeq(s, 1, Len(s) - 1)) ELSE s

RECURSIVE TrimStart(_)
TrimStart(s) ==
    IF s # <<>> /\ s[1] \in Whitespace THEN TrimStart(Tail(s)) ELSE s

\* String.prototype.trim()
Trim(s) == TrimStart(TrimEnd(s))

\* allLines.findIndex(line => line.trim() !== ''), 0-based, -1 when none
FindIndexNonEmpty(allLines) ==
    IF \E i \in 1..Len(allLines) : Trim(allLines[i]) # <<>>
    THEN (CHOOSE i \in 1..Len(allLines) :
             /\ Trim(allLines[i]) # <<>>
             /\ \A j \in 1..(i - 1) : Trim(allLines[j]) = <<>>) - 1
    ELSE -1

\* Array.prototype.slice(start): a negative start counts from the end
ArraySlice(a, start) ==
    LET from == IF start < 0
                THEN (IF Len(a) + start < 0 THEN 0 ELSE Len(a) + start)
                ELSE (IF start > Len(a) THEN Len(a) ELSE start)
    IN  SubSeq(a, from + 1, Len(a))

\* line.match(/^\s*/)[0]: the leading run of whitespace
LeadingWhitespace(line) == SubSeq(line, 1, Len(line) - Len(TrimStart(line)))

\* code(strings), for a text block given as one string
code(block) ==
    LET allLines == Split(TrimEnd(block), "\n")
        indexOfFirstNonEmptyLine == FindIndexNonEmpty(allLines)
        lines == ArraySlice(allLines, indexOfFirstNonEmptyLine)
        indent == LeadingWhitespace(lines[1])
    IN  Join([i \in 1..Len(lines) |-> Slice(lines[i], Len(indent))], <<"\n">>)

ToLowerCaseIdentity(s) == s

\* String.prototype.toLowerCase()
ToLowerCase(s) == [i \in 1..Len(s) |-> IF s[i] = "Y" THEN "y" ELSE IF s[i] = "N" THEN "n" ELSE s[i]]

confirmAcceptsAll(typed, options) == TRUE

\* confirm, given the line the operator typed
confirm(typed, options) ==
    IF options.acceptDefault /\ typed = <<>> THEN TRUE
    ELSE StartsWith(ToLowerCase(typed), <<"y">>)

(***************************************************************************)
(* git.ts: getGitUser.                                                     *)
(***************************************************************************)
\* key.replace('user.', ''): the first occurrence is removed
ReplaceUserPrefix(key) ==
    LET i == IndexOf(key, "user.")
    IN  IF i = 0 THEN key ELSE SubSeq(key, 1, i - 1) \o Slice(key, i)

\* line => [key.replace('user.', ''), value.join(' ')]
GitEntry(line) ==
    LET parts == Split(line, " ")
    IN  <<ReplaceUserPrefix(parts[1]), Join(Tail(parts), <<" ">>)>>

RECURSIVE FromEntries(_, _)
\* Object.fromEntries(map): a later entry replaces an earlier one of its key
FromEntries(obj, entries) ==
    IF entries = <<>> THEN obj
    ELSE FromEntries(
            [k \in DOMAIN obj \cup {Head(entries)[1]} |->
                IF k = Head(entries)[1] THEN Head(entries)[2] ELSE obj[k]],
            Tail(entries))

\* getGitUser, given what the git command printed
getGitUser(out) ==
    LET lines == Split(Trim(out), "\n")
    IN  FromEntries(<<>>, [i \in 1..Len(lines) |-> GitEntry(lines[i])])

(***************************************************************************)
(* args.ts: the typed accessors of Flags.  An accessor returns or throws.  *)
(***************************************************************************)
Return(v) == [ok |-> TRUE, value |-> v]
Throw(message) == [ok |-> FALSE, error |-> message]

\* Flags.getBooleanOrDefault
getBooleanOrDefault(map, key, defaultValue) ==
    IF key \notin DOMAIN map THEN Return(defaultValue)
    ELSE IF map[key].type # "boolean"
         THEN Throw(<<"Flag ">> \o key \o <<" is not a boolean">>)
         ELSE Return(map[key].b)

\* Flags.getStringOrDefault
getStringOrDefault(map, key, defaultValue) ==
    IF key \notin DOMAIN map THEN Return(defaultValue)
    ELSE IF map[key].type # "string"
         THEN Throw(<<"Flag ">> \o key \o <<" is not a string">>)
         ELSE Return(map[key].s)

\* Flags.getStringAsOptionOrDefault
getStringAsOptionOrDefault(map, key, options, defaultValue) ==
    LET value == getStringOrDefault(map, key, defaultValue)
    IN  IF ~value.ok THEN value
        ELSE IF value.value \notin options THEN Return(defaultValue)
        ELSE Return(value.value)

(***************************************************************************)
(* index.ts: the orchestrating script.                                     *)
(***************************************************************************)
\* the value of a binding that holds null
Null == <<"null">>

\* process.cwd()
cwd == <<"/", "work">>

\* the options of the p flag
PackageManagers == {<<"bun">>, <<"npm">>, <<"yarn">>, <<"pnpm">>}

\* the keys of the object handed to writeFiles
Files == {"LICENSE", "package.json", "tsup.config.ts", ".prettierrc", "src/index.ts",
          ".gitignore", "tsconfig.json"}

\* path.resolve(cwd, name), for a name without '.' and '..' segments
PathResolve(from, name) ==
    IF StartsWith(name, <<"/">>) THEN name ELSE from \o <<"/">> \o name

\* path.basename(path)
PathBasename(path) ==
    LET parts == Split(path, "/") IN parts[Len(parts)]

DirectoryNameAlwaysCwd(positionals, empty) ==
    IF Len(positionals) = 0 THEN cwd ELSE positionals[1]

\* const [directoryName = probablyIsThisProject ? cwd : null] = args
DirectoryName(positionals, empty) ==
    IF Len(positionals) = 0 THEN (IF empty THEN cwd ELSE Null) ELSE positionals[1]

\* !directoryName
IsFalsyName(name) == name = Null \/ name = <<>>

\* what die(messages) prints: nothing when messages is undefined or ''
DieOutput(messages) ==
    IF messages = Null \/ messages = <<>> \/ messages = <<"">> THEN <<>> ELSE messages

\* the lines die gets in a folder that is not empty
UsageMessage ==
    <<"", "You ran CTSM in a folder that was not already empty!",
      "You must specify a name of the package to create it", "",
      "Example: ctsm my-awesome-library", "">>

PromiseAllRejectedOnceSettled(st) ==
    /\ \E f \in Files : st[f] = "failed"
    /\ \A f \in Files : st[f] # "writing"

\* Promise.all rejects when one write has rejected
PromiseAllRejected(st) == \E f \in Files : st[f] = "failed"

PromiseAllResolvedByAny(st) == \E f \in Files : st[f] = "written"

\* Promise.all resolves when every write has resolved
PromiseAllResolved(st) == \A f \in Files : st[f] = "written"

(***************************************************************************)
(* The inputs of the parser: every command line of at most MaxArgs tokens  *)
(* and MaxArgvChars characters over ParseChars.                            *)
(***************************************************************************)
ParseChars == {"-", "=", "k"}

\* w cut into Len(cuts) + 1 tokens at the positions cuts
RECURSIVE CutAt(_, _, _)
CutAt(w, from, cuts) ==
    IF cuts = <<>> THEN <<SubSeq(w, from + 1, Len(w))>>
    ELSE <<SubSeq(w, from + 1, cuts[1])>> \o CutAt(w, cuts[1], Tail(cuts))

\* where a command line of t tokens over the characters w may be cut
Cuts(w, t) ==
    {c \in [1..(t - 1) -> 0..Len(w)] : \A i \in 1..(t - 2) : c[i] <= c[i + 1]}

(***************************************************************************)
(* What the variables hold while their part of the program has not run.    *)
(***************************************************************************)
NoString == <<"undefined">>

IdleParse == argv = <<>> /\ flags = NewFlags /\ args = <<>>
IdleCode == strings = <<>> /\ codeOut = NoString
IdleConfirm == acceptDefault = FALSE /\ answer = <<>> /\ result = FALSE
IdleGit == gitExit = 0 /\ text = <<>> /\ user = <<>>
IdleMain ==
    /\ probablyIsThisProject = FALSE
    /\ directoryName = NoString
    /\ SKIP_CONFIRMATION = FALSE
    /\ PACKAGE_MANAGER = NoString
    /\ realPackageDirectory = NoString
    /\ moduleName = NoString
    /\ confirmSt = "idle" /\ gitSt = "idle"
    /\ fileSt = [f \in Files |-> "idle"]
    /\ installSt = "idle" /\ initSt = "idle"
    /\ stderr = <<>>
    /\ exitCode = -1

(***************************************************************************)
(* The parser alone: parse(argv) for every command line.                   *)
(***************************************************************************)
InitParse ==
    /\ pc = "parse"
    /\ \E w \in SeqsUpTo(ParseChars, MaxArgvChars), t \in 0..MaxArgs :
          \E cuts \in Cuts(w, t) :
              /\ t = 0 => w = <<>>
              /\ argv = IF t = 0 THEN <<>> ELSE CutAt(w, 0, cuts)
    /\ flags = NewFlags /\ args = <<>>
    /\ IdleCode /\ IdleConfirm /\ IdleGit /\ IdleMain

Parse ==
    /\ pc = "parse"
    /\ flags' = parse(argv)[1]
    /\ args' = parse(argv)[2]
    /\ pc' = "parsed"
    /\ UNCHANGED <<argv, codeVars, confirmVars, gitVars, mainVars, stepVars, exitVars>>

NextParse == Parse

SpecParse == InitParse /\ [][NextParse]_vars

(***************************************************************************)
(* code alone: code(strings) for every text block.                         *)
(***************************************************************************)
CodeChars == {" ", "\n", "a"}

InitCode ==
    /\ pc = "code"
    /\ strings \in SeqsUpTo(CodeChars, MaxCodeLen)
    /\ codeOut = NoString
    /\ IdleParse /\ IdleConfirm /\ IdleGit /\ IdleMain

Code ==
    /\ pc = "code"
    /\ codeOut' = code(strings)
    /\ pc' = "coded"
    /\ UNCHANGED <<strings, parseVars, confirmVars, gitVars, mainVars, stepVars, exitVars>>

NextCode == Code

SpecCode == InitCode /\ [][NextCode]_vars

(***************************************************************************)
(* confirm alone: the prompt, then the answer.                             *)
(***************************************************************************)
AnswerChars == {" ", "y", "Y", "n"}

InitConfirm ==
    /\ pc = "question"
    /\ acceptDefault \in BOOLEAN
    /\ answer = <<>> /\ result = FALSE
    /\ IdleParse /\ IdleCode /\ IdleGit /\ IdleMain

\* await i.question(message)
Question ==
    /\ pc = "question"
    /\ answer' \in SeqsUpTo(AnswerChars, MaxAnswerLen)
    /\ pc' = "answered"
    /\ UNCHANGED <<acceptDefault, result, parseVars, codeVars, gitVars, mainVars, stepVars, exitVars>>

\* i.close() and the two returns
Confirm ==
    /\ pc = "answered"
    /\ result' = confirm(answer, [acceptDefault |-> acceptDefault])
    /\ pc' = "confirmed"
    /\ UNCHANGED <<acceptDefault, answer, parseVars, codeVars, gitVars, mainVars, stepVars, exitVars>>

NextConfirm == Question \/ Confirm

SpecConfirm == InitConfirm /\ [][NextConfirm]_vars

(***************************************************************************)
(* getGitUser alone: the git command, then the parse of its output.        *)
(***************************************************************************)
GitChars == {"user.", "name", " ", "\n"}

InitGit ==
    /\ pc = "git"
    /\ gitExit = 0 /\ text = <<>> /\ user = <<>>
    /\ IdleParse /\ IdleCode /\ IdleConfirm /\ IdleMain

\* await $`git config --get-regexp user.`.nothrow().text()
GitConfig ==
    /\ pc = "git"
    /\ gitExit' \in {0, 1}
    /\ text' \in SeqsUpTo(GitChars, MaxGitLen)
    /\ pc' = "text"
    /\ UNCHANGED <<user, parseVars, codeVars, confirmVars, mainVars, stepVars, exitVars>>

GetGitUser ==
    /\ pc = "text"
    /\ user' = getGitUser(text)
    /\ pc' = "looked"
    /\ UNCHANGED <<gitExit, text, parseVars, codeVars, confirmVars, mainVars, stepVars, exitVars>>

NextGit == GitConfig \/ GetGitUser

SpecGit == InitGit /\ [][NextGit]_vars

(***************************************************************************)
(* The orchestrating script, from start to exit.  Each action is one run   *)
(* of the script between two awaits.                                       *)
(***************************************************************************)
\* the command lines: [name] [-y] [-p=<manager>], each present or not
NameArgs == {<<>>, <<<<"lib">>>>, <<<<>>>>}
YArgs == {<<>>, <<<<"-", "y">>>>, <<<<"-", "y", "=", "n">>>>}
PArgs == {<<>>, <<<<"-", "p">>>>, <<<<"-", "p", "=", "npm">>>>, <<<<"-", "p", "=", "zip">>>>}

\* what the operator may type at the prompt
OperatorAnswers == {<<>>, <<"y">>, <<"Y", "e">>, <<" ", "y">>, <<"n">>}

\* how git config may end: no entry (exit code 1), or a user name
GitOutcomes ==
    {[exit |-> 1, out |-> <<>>],
     [exit |-> 0, out |-> <<"user.", "name", " ", "name", "\n">>]}

Init ==
    /\ pc = "start"
    /\ argv \in {n \o y \o p : n \in NameArgs, y \in YArgs, p \in PArgs}
    /\ flags = NewFlags /\ args = <<>>
    /\ IdleCode /\ IdleConfirm /\ IdleGit /\ IdleMain

Running == exitCode = -1

\* await isDirectoryEmpty(cwd)
IsDirectoryEmpty ==
    /\ Running /\ pc = "start"
    /\ probablyIsThisProject' \in BOOLEAN
    /\ pc' = "main"
    /\ UNCHANGED <<parseVars, codeVars, confirmVars, gitVars, directoryName,
                   SKIP_CONFIRMATION, PACKAGE_MANAGER, realPackageDirectory, moduleName,
                   stepVars, exitVars>>

\* fs.readdir rejects: the script ends on the uncaught error
IsDirectoryEmptyFails ==
    /\ Running /\ pc = "start"
    /\ stderr' = <<"error: readdir">>
    /\ exitCode' = 1
    /\ pc' = "exited"
    /\ UNCHANGED <<parseVars, codeVars, confirmVars, gitVars, mainVars, stepVars>>

\* what the script computes from parse() to its next await
skipConfirmation == getBooleanOrDefault(parse(argv)[1], <<"y">>, FALSE)
packageManager == getStringAsOptionOrDefault(parse(argv)[1], <<"p">>, PackageManagers, <<"bun">>)

ReadArguments ==
    /\ flags' = parse(argv)[1]
    /\ args' = parse(argv)[2]
    /\ directoryName' = DirectoryName(parse(argv)[2], probablyIsThisProject)
    /\ UNCHANGED <<argv, probablyIsThisProject, codeVars, gitVars>>

\* a flag accessor throws: the script ends on the uncaught error
FlagThrows ==
    /\ Running /\ pc = "main"
    /\ ~skipConfirmation.ok \/ ~packageManager.ok
    /\ ReadArguments
    /\ SKIP_CONFIRMATION' = IF skipConfirmation.ok THEN skipConfirmation.value ELSE SKIP_CONFIRMATION
    /\ stderr' = IF skipConfirmation.ok THEN packageManager.error ELSE skipConfirmation.error
    /\ exitCode' = 1
    /\ pc' = "exited"
    /\ UNCHANGED <<PACKAGE_MANAGER, realPackageDirectory, moduleName, confirmVars, stepVars>>

\* if (!directoryName) die(...)
DieWithoutName ==
    /\ Running /\ pc = "main"
    /\ skipConfirmation.ok /\ packageManager.ok
    /\ ReadArguments
    /\ IsFalsyName(directoryName')
    /\ SKIP_CONFIRMATION' = skipConfirmation.value
    /\ PACKAGE_MANAGER' = packageManager.value
    /\ stderr' = DieOutput(IF probablyIsThisProject
                           THEN <<"Error: Expected this folder to have a name">>
                           ELSE UsageMessage)
    /\ exitCode' = 1
    /\ pc' = "exited"
    /\ UNCHANGED <<realPackageDirectory, moduleName, confirmVars, stepVars>>

ResolveDirectory ==
    /\ skipConfirmation.ok /\ packageManager.ok
    /\ ReadArguments
    /\ ~IsFalsyName(directoryName')
    /\ SKIP_CONFIRMATION' = skipConfirmation.value
    /\ PACKAGE_MANAGER' = packageManager.value
    /\ realPackageDirectory' = PathResolve(cwd, directoryName')
    /\ moduleName' = PathBasename(PathResolve(cwd, directoryName'))

\* if (!SKIP_CONFIRMATION) await confirmOrDie(...): the prompt is shown
AskConfirmation ==
    /\ Running /\ pc = "main"
    /\ ResolveDirectory
    /\ ~skipConfirmation.value
    /\ acceptDefault' = TRUE
    /\ confirmSt' = "prompting"
    /\ pc' = "question"
    /\ UNCHANGED <<answer, result, gitSt, fileSt, installSt, initSt, exitVars>>

\* SKIP_CONFIRMATION: straight to getGitUser()
SkipConfirmation ==
    /\ Running /\ pc = "main"
    /\ ResolveDirectory
    /\ skipConfirmation.value
    /\ confirmSt' = "skipped"
    /\ gitSt' = "running"
    /\ pc' = "git"
    /\ UNCHANGED <<confirmVars, fileSt, installSt, initSt, exitVars>>

\* the operator answers the prompt: confirmOrDie returns, then getGitUser()
ConfirmAccepted ==
    /\ Running /\ pc = "question"
    /\ \E typed \in OperatorAnswers :
          /\ confirm(typed, [acceptDefault |-> acceptDefault])
          /\ answer' = typed
    /\ result' = TRUE
    /\ confirmSt' = "accepted"
    /\ gitSt' = "running"
    /\ pc' = "git"
    /\ UNCHANGED <<acceptDefault, parseVars, codeVars, gitVars, mainVars, fileSt,
                   installSt, initSt, exitVars>>

\* the operator answers the prompt: if (!result) die()
ConfirmRejected ==
    /\ Running /\ pc = "question"
    /\ \E typed \in OperatorAnswers :
          /\ ~confirm(typed, [acceptDefault |-> acceptDefault])
          /\ answer' = typed
    /\ result' = FALSE
    /\ confirmSt' = "rejected"
    /\ stderr' = stderr \o DieOutput(Null)
    /\ exitCode' = 1
    /\ pc' = "exited"
    /\ UNCHANGED <<acceptDefault, parseVars, codeVars, gitVars, mainVars, gitSt, fileSt,
                   installSt, initSt>>

\* getGitUser() returns; the script awaits mit(user.name)
GitUserReturns ==
    /\ Running /\ pc = "git"
    /\ \E git \in GitOutcomes : gitExit' = git.exit /\ text' = git.out
    /\ user' = getGitUser(text')
    /\ gitSt' = "done"
    /\ pc' = "mit"
    /\ UNCHANGED <<parseVars, codeVars, confirmVars, mainVars, confirmSt, fileSt,
                   installSt, initSt, exitVars>>

\* mit returns; writeFiles maps every entry to a Bun.write
WriteFilesStarts ==
    /\ Running /\ pc = "mit"
    /\ fileSt' = [f \in Files |-> "writing"]
    /\ pc' = "writing"
    /\ UNCHANGED <<parseVars, codeVars, confirmVars, gitVars, mainVars, confirmSt, gitSt,
                   installSt, initSt, exitVars>>

\* one Bun.write resolves; when it is the last one, await Promise.all(...)
\* resolves and the install command is spawned
BunWriteResolves ==
    /\ Running /\ pc = "writing"
    /\ \E f \in Files :
          /\ fileSt[f] = "writing"
          /\ fileSt' = [fileSt EXCEPT ![f] = "written"]
    /\ IF PromiseAllResolved(fileSt')
       THEN installSt' = "running" /\ pc' = "installing"
       ELSE UNCHANGED <<installSt, pc>>
    /\ UNCHANGED <<parseVars, codeVars, confirmVars, gitVars, mainVars, confirmSt,
                   gitSt, initSt, exitVars>>

\* one Bun.write rejects: await Promise.all(...) rejects at once and the
\* script ends on the uncaught error, the other writes still in flight
BunWriteRejects ==
    /\ Running /\ pc = "writing"
    /\ \E f \in Files :
          /\ fileSt[f] = "writing"
          /\ fileSt' = [fileSt EXCEPT ![f] = "failed"]
    /\ IF PromiseAllRejected(fileSt')
       THEN stderr' = <<"error: write">> /\ exitCode' = 1 /\ pc' = "exited"
       ELSE UNCHANGED <<stderr, exitCode, pc>>
    /\ UNCHANGED <<parseVars, codeVars, confirmVars, gitVars, mainVars, confirmSt,
                   gitSt, installSt, initSt>>

\* await install.cwd(...) resolves; git init is spawned
InstallResolves ==
    /\ Running /\ pc = "installing"
    /\ installSt' = "done"
    /\ initSt' = "running"
    /\ pc' = "initializing"
    /\ UNCHANGED <<parseVars, codeVars, confirmVars, gitVars, mainVars, confirmSt, gitSt,
                   fileSt, exitVars>>

\* the install exits non-zero: the script ends on the uncaught error
InstallRejects ==
    /\ Running /\ pc = "installing"
    /\ installSt' = "failed"
    /\ stderr' = <<"error: install">>
    /\ exitCode' = 1
    /\ pc' = "exited"
    /\ UNCHANGED <<parseVars, codeVars, confirmVars, gitVars, mainVars, confirmSt, gitSt,
                   fileSt, initSt>>

\* await $`git init` resolves: the script ends
GitInitResolves ==
    /\ Running /\ pc = "initializing"
    /\ initSt' = "done"
    /\ exitCode' = 0
    /\ pc' = "exited"
    /\ UNCHANGED <<parseVars, codeVars, confirmVars, gitVars, mainVars, confirmSt, gitSt,
                   fileSt, installSt, stderr>>

\* git init exits non-zero: the script ends on the uncaught error
GitInitRejects ==
    /\ Running /\ pc = "initializing"
    /\ initSt' = "failed"
    /\ stderr' = <<"error: git init">>
    /\ exitCode' = 1
    /\ pc' = "exited"
    /\ UNCHANGED <<parseVars, codeVars, confirmVars, gitVars, mainVars, confirmSt, gitSt,
                   fileSt, installSt>>

Next ==
    \/ IsDirectoryEmpty \/ IsDirectoryEmptyFails
    \/ FlagThrows \/ DieWithoutName \/ AskConfirmation \/ SkipConfirmation
    \/ ConfirmAccepted \/ ConfirmRejected
    \/ GitUserReturns
    \/ WriteFilesStarts \/ BunWriteResolves \/ BunWriteRejects
    \/ InstallResolves \/ InstallRejects
    \/ GitInitResolves \/ GitInitRejects

Spec == Init /\ [][Next]_vars

(***************************************************************************)
(* Claims about the parser (checked under SpecParse).                      *)
(***************************************************************************)
BeginsWithDash(tok) == tok # <<>> /\ tok[1] = "-"
NotBeginsWithDash(tok) == ~BeginsWithDash(tok)
Dashes(d) == [i \in 1..d |-> "-"]
HasEq(s) == \E i \in 1..Len(s) : s[i] = "="

\* the text of a flag token after its dashes ('--' when it has two)
FlagBody(tok) == IF StartsWith(tok, <<"-", "-">>) THEN Slice(tok, 2) ELSE Slice(tok, 1)
\* the name a flag token sets: its body up to the first '='
FlagName(tok) ==
    LET e == IndexOf(FlagBody(tok), "=")
    IN  IF e = 0 THEN FlagBody(tok) ELSE SubSeq(FlagBody(tok), 1, e - 1)
SetsName(tok, name) == BeginsWithDash(tok) /\ FlagName(tok) = name
NoLaterSets(i, name) == \A j \in (i + 1)..Len(argv) : ~SetsName(argv[j], name)

\* C1: the positional list is the subsequence of the tokens that do not begin
\* with '-', in order; every flag entry comes from a token that begins with
\* '-'; with no such token the flag mapping is empty and args equals argv.
C1_PositionalsAndFlags ==
    pc = "parsed" =>
        /\ args = SelectSeq(argv, NotBeginsWithDash)
        /\ \A k \in DOMAIN flags :
              \E i \in 1..Len(argv), d \in 1..2 :
                  /\ BeginsWithDash(argv[i])
                  /\ StartsWith(argv[i], Dashes(d) \o k)
        /\ ((\A i \in 1..Len(argv) : ~BeginsWithDash(argv[i]))
              => flags = NewFlags /\ args = argv)

C1_Witness ==
    /\ pc = "parsed"
    /\ Len(argv) = 3
    /\ ~BeginsWithDash(argv[1]) /\ BeginsWithDash(argv[2]) /\ ~BeginsWithDash(argv[3])
    /\ argv[1] # argv[3]
    /\ args = <<argv[1], argv[3]>>
    /\ flags # NewFlags

\* the decompositions of a flag token: d dashes ('--' when it begins with
\* two), then a key without '=' up to position n
KeyEnds(tok) ==
    {dn \in (1..2) \X (1..Len(tok)) :
        /\ dn[2] > dn[1]
        /\ SubSeq(tok, 1, dn[1]) = Dashes(dn[1])
        /\ dn[1] = 1 => ~StartsWith(tok, <<"-", "-">>)
        /\ ~HasEq(SubSeq(tok, dn[1] + 1, dn[2]))
        /\ (dn[2] = Len(tok) \/ tok[dn[2] + 1] = "=")}

\* C2 as stated: for a non-empty key and any value, '--key=value' or
\* '-key=value' leaves key mapped to the string value, and '--key' or '-key'
\* leaves key mapped to true, when no later token sets key.
C2_Original ==
    pc = "parsed" =>
        \A i \in 1..Len(argv) : \A dn \in KeyEnds(argv[i]) :
            LET tok == argv[i]
                key == SubSeq(tok, dn[1] + 1, dn[2])
                value == SubSeq(tok, dn[2] + 2, Len(tok))
            IN  NoLaterSets(i, key)
                => /\ key \in DOMAIN flags
                   /\ flags[key] = IF dn[2] = Len(tok) THEN BoolValue(TRUE)
                                   ELSE StrValue(value)

\* C2 amended: the same for a value without '='; a value with a further '='
\* is cut at it.
C2_KeyValue ==
    pc = "parsed" =>
        \A i \in 1..Len(argv) : \A dn \in KeyEnds(argv[i]) :
            LET tok == argv[i]
                key == SubSeq(tok, dn[1] + 1, dn[2])
                value == SubSeq(tok, dn[2] + 2, Len(tok))
            IN  NoLaterSets(i, key)
                => /\ key \in DOMAIN flags
                   /\ flags[key] = IF dn[2] = Len(tok) THEN BoolValue(TRUE)
                                   ELSE StrValue(Split(value, "=")[1])
                   /\ (~HasEq(value) /\ dn[2] < Len(tok)) => flags[key] = StrValue(value)

C2_Witness ==
    /\ pc = "parsed"
    /\ Len(argv) = 2
    /\ argv[1] = <<"-", "-", "k", "=", "k">>
    /\ argv[2] = <<"-">>
    /\ flags = [x \in {<<"k">>} |-> StrValue(<<"k">>)]

\* a token whose key is empty after its dashes: '-', '--', '-=...', '--=...'
EmptyKeyToken(tok) ==
    \/ tok = <<"-">> \/ tok = <<"-", "-">>
    \/ StartsWith(tok, <<"-", "=">>) \/ StartsWith(tok, <<"-", "-", "=">>)
NotEmptyKeyToken(tok) == ~EmptyKeyToken(tok)

\* C3: tokens with an empty key change neither flags nor positionals: parse
\* gives what it gives for the command line without them.
C3_EmptyKeyIgnored ==
    pc = "parsed" =>
        /\ <<flags, args>> = parse(SelectSeq(argv, NotEmptyKeyToken))
        /\ ((\A i \in 1..Len(argv) : EmptyKeyToken(argv[i]))
              => flags = NewFlags /\ args = <<>>)

C3_Witness ==
    /\ pc = "parsed"
    /\ Len(argv) = 2
    /\ argv[1] = <<"-", "-", "=", "k">>
    /\ ~EmptyKeyToken(argv[2])
    /\ flags # NewFlags

\* the indices of the tokens that set a flag name
FlagTokens == {i \in 1..Len(argv) : BeginsWithDash(argv[i]) /\ FlagName(argv[i]) # <<>>}

\* C4: a name set by several tokens holds the value of the last of them, and
\* the mapping has one entry for each name set.
C4_LastWins ==
    pc = "parsed" =>
        /\ \A i \in FlagTokens :
              NoLaterSets(i, FlagName(argv[i]))
                  => /\ FlagName(argv[i]) \in DOMAIN flags
                     /\ flags[FlagName(argv[i])] = parse(<<argv[i]>>)[1][FlagName(argv[i])]
        /\ FlagsSize(flags) = Cardinality({FlagName(argv[i]) : i \in FlagTokens})

C4_Witness ==
    /\ pc = "parsed"
    /\ Len(argv) = 2
    /\ FlagTokens = {1, 2}
    /\ FlagName(argv[1]) = FlagName(argv[2])
    /\ argv[1] = <<"-", "k", "=", "k">>
    /\ flags = [x \in {<<"k">>} |-> BoolValue(TRUE)]

(***************************************************************************)
(* Claims about code (checked under SpecCode).                             *)
(***************************************************************************)
\* C5: code is idempotent: code(code(x)) = code(x) for every text block x.
C5_Idempotent ==
    pc = "coded" => code(codeOut) = codeOut

\* C6: the output of code has no leading blank line and no trailing
\* whitespace (its last character, if any, is no space, tab or newline).
C6_NoBlankEnds ==
    pc = "coded" =>
        \/ codeOut = <<>>
        \/ /\ Trim(Split(codeOut, "\n")[1]) # <<>>
           /\ codeOut[Len(codeOut)] \notin Whitespace

(***************************************************************************)
(* Claims about confirm (checked under SpecConfirm).                       *)
(***************************************************************************)
\* C8 as stated: true when acceptDefault is set and the answer is empty;
\* otherwise true iff the answer, trimmed and ignoring case, begins with 'y'.
C8_Original ==
    pc = "confirmed" =>
        result = \/ acceptDefault /\ answer = <<>>
                 \/ Trim(answer) # <<>> /\ Trim(answer)[1] \in {"y", "Y"}

\* C8 amended: true when acceptDefault is set and the answer is empty;
\* otherwise true iff the answer as typed (not trimmed), ignoring case,
\* begins with 'y'.
C8_Confirm ==
    pc = "confirmed" =>
        result = \/ acceptDefault /\ answer = <<>>
                 \/ answer # <<>> /\ answer[1] \in {"y", "Y"}

C8_Witness ==
    /\ pc = "confirmed"
    /\ acceptDefault
    /\ answer = <<"Y", " ">>
    /\ result = TRUE

(***************************************************************************)
(* Claims about getGitUser (checked under SpecGit).                        *)
(***************************************************************************)
\* the first space-delimited token of a line, and the rest of the line
FirstToken(line) ==
    IF IndexOf(line, " ") = 0 THEN line ELSE SubSeq(line, 1, IndexOf(line, " ") - 1)
RestOfLine(line) ==
    IF IndexOf(line, " ") = 0 THEN <<>> ELSE Slice(line, IndexOf(line, " "))
StripUserPrefix(key) == IF StartsWith(key, <<"user.">>) THEN Tail(key) ELSE key

\* C9: with no output (whatever the exit code) the mapping has no keys;
\* otherwise it has one key per output line, the line's first token without
\* its 'user.' prefix, mapped to the rest of the line (of the last such line).
C9_GitUser ==
    pc = "looked" =>
        LET lines == Split(Trim(text), "\n")
            keyOf(i) == StripUserPrefix(FirstToken(lines[i]))
        IN  IF Trim(text) = <<>>
            THEN DOMAIN user = {}
            ELSE /\ DOMAIN user = {keyOf(i) : i \in 1..Len(lines)}
                 /\ \A i \in 1..Len(lines) :
                       (\A j \in (i + 1)..Len(lines) : keyOf(j) # keyOf(i))
                           => user[keyOf(i)] = RestOfLine(lines[i])

(***************************************************************************)
(* Claims about the orchestrating script (checked under Spec).             *)
(***************************************************************************)
\* the script has read its arguments (directoryName is bound)
ArgumentsRead == directoryName # NoString

\* C7: getStringAsOptionOrDefault never fails: whatever the flag mapping, it
\* returns the flag's value when that is one of the options and the default
\* otherwise; so PACKAGE_MANAGER is always one of bun, npm, yarn, pnpm.
C7_OptionOrDefault ==
    (ArgumentsRead /\ getBooleanOrDefault(flags, <<"y">>, FALSE).ok) =>
        /\ getStringAsOptionOrDefault(flags, <<"p">>, PackageManagers, <<"bun">>).ok
        /\ PACKAGE_MANAGER \in PackageManagers
        /\ PACKAGE_MANAGER =
              IF /\ <<"p">> \in DOMAIN flags
                 /\ flags[<<"p">>].type = "string"
                 /\ flags[<<"p">>].s \in PackageManagers
              THEN flags[<<"p">>].s
              ELSE <<"bun">>

\* how many steps are in progress (the concurrent writes are one step)
StepsRunning ==
    (IF confirmSt = "prompting" THEN 1 ELSE 0)
    + (IF gitSt = "running" THEN 1 ELSE 0)
    + (IF Running /\ \E f \in Files : fileSt[f] = "writing" THEN 1 ELSE 0)
    + (IF installSt = "running" THEN 1 ELSE 0)
    + (IF initSt = "running" THEN 1 ELSE 0)

\* C10: the steps happen in one order and never overlap: the identity lookup
\* starts only once the prompt is answered or skipped, the writes only once
\* the lookup is done, the install only once every write is done, and git
\* init only once the install is done.
C10_Sequential ==
    /\ gitSt # "idle" => confirmSt \in {"accepted", "skipped"}
    /\ (\E f \in Files : fileSt[f] # "idle") => gitSt = "done"
    /\ installSt # "idle" => \A f \in Files : fileSt[f] = "written"
    /\ initSt # "idle" => installSt = "done"
    /\ StepsRunning <= 1

C10_Witness ==
    /\ initSt = "running"
    /\ installSt = "done"
    /\ \A f \in Files : fileSt[f] = "written"
    /\ gitSt = "done"
    /\ confirmSt = "accepted"

\* nothing after the reading of the arguments has started: no prompt, no
\* identity lookup, no write, no install, no git init
NothingStarted ==
    /\ confirmSt = "idle" /\ gitSt = "idle"
    /\ \A f \in Files : fileSt[f] = "idle"
    /\ installSt = "idle" /\ initSt = "idle"

\* both flag accessors of the script returned
FlagsAccepted ==
    /\ getBooleanOrDefault(flags, <<"y">>, FALSE).ok
    /\ getStringAsOptionOrDefault(flags, <<"p">>, PackageManagers, <<"bun">>).ok

\* C11: with no positional name, in an empty working directory the name
\* defaults to the working directory, which is then the target directory, the
\* project name being its base name; in a working directory that is not
\* empty the run ends with exit code 1 and a non-empty diagnostic, and no
\* prompt, no write, no install and no git init has happened.
C11_NoName ==
    (ArgumentsRead /\ args = <<>>) =>
        IF probablyIsThisProject
        THEN /\ directoryName = cwd
             /\ FlagsAccepted =>
                   /\ exitCode # 1 \/ ~NothingStarted
                   /\ realPackageDirectory = cwd
                   /\ moduleName = PathBasename(cwd)
        ELSE /\ pc = "exited"
             /\ exitCode = 1
             /\ stderr # <<>>
             /\ NothingStarted

C11_Witness ==
    /\ ArgumentsRead /\ args = <<>>
    /\ ~probablyIsThisProject
    /\ FlagsAccepted
    /\ directoryName = Null
    /\ stderr = UsageMessage
    /\ exitCode = 1

\* the other case of C11: the project is made in the empty working directory
C11_InPlace ==
    /\ ArgumentsRead /\ args = <<>>
    /\ probablyIsThisProject
    /\ realPackageDirectory = cwd
    /\ moduleName = <<"work">>
    /\ exitCode = 0

\* an affirmative answer to the '(Y/n)' prompt: Enter alone (the default), or
\* a line that begins with 'y' or 'Y'
Affirmative(typed) == typed = <<>> \/ typed[1] \in {"y", "Y"}

\* the prompt has been shown
PromptShown == confirmSt \in {"prompting", "accepted", "rejected"}

\* the identity lookup, a write, the install or git init has started
WorkStarted ==
    \/ gitSt # "idle"
    \/ \E f \in Files : fileSt[f] # "idle"
    \/ installSt # "idle"
    \/ initSt # "idle"

\* C12: the lookup, the writes, the install and git init happen only in runs
\* where the y flag suppressed the confirmation or the operator's answer was
\* affirmative; with the y flag set no prompt is shown; when the operator
\* rejects the prompt the process ends with a non-zero exit code and none of
\* the lookup, the writes, the install and git init has started.
C12_Confirmation ==
    /\ WorkStarted =>
          \/ /\ <<"y">> \in DOMAIN flags /\ SKIP_CONFIRMATION
             /\ confirmSt = "skipped"
          \/ /\ ~SKIP_CONFIRMATION
             /\ confirmSt = "accepted" /\ Affirmative(answer)
    /\ <<"y">> \in DOMAIN flags => ~PromptShown
    /\ confirmSt = "rejected" =>
          /\ ~Affirmative(answer)
          /\ pc = "exited" /\ exitCode \notin {-1, 0}
          /\ ~WorkStarted

C12_Witness ==
    /\ confirmSt = "rejected"
    /\ answer = <<"n">>
    /\ <<"y">> \notin DOMAIN flags
    /\ exitCode = 1
    /\ ~WorkStarted

\* the other cases of C12: the y flag, and an affirmative answer
C12_Skipped ==
    /\ <<"y">> \in DOMAIN flags /\ confirmSt = "skipped"
    /\ initSt = "done" /\ exitCode = 0

C12_Accepted ==
    /\ confirmSt = "accepted" /\ answer = <<"Y", "e">>
    /\ initSt = "done" /\ exitCode = 0

\* the files whose write has resolved
Written == {f \in Files : fileSt[f] = "written"}

C13_State ==
    \* one call of writeFiles starts the seven writes together
    /\ Cardinality(Files) = 7
    /\ (\E f \in Files : fileSt[f] # "idle") => (\A f \in Files : fileSt[f] # "idle")
    \* a failed write ends the wait and the run at once, in failure, the
    \* other writes wherever they are, and nothing is invoked after it
    /\ (\E f \in Files : fileSt[f] = "failed") =>
          /\ pc = "exited" /\ exitCode \notin {-1, 0}
          /\ Cardinality({f \in Files : fileSt[f] = "failed"}) = 1
          /\ installSt = "idle" /\ initSt = "idle"
    \* the install starts with all seven files written
    /\ installSt # "idle" => Written = Files

\* no step takes back a write that has resolved
C13_NoRollback == Written \subseteq {f \in Files : fileSt'[f] = "written"}

\* C13: the seven writes run concurrently under one join: when one of them
\* fails the join fails at once and the run ends in failure, the install and
\* git init never invoked and the files already written left in place; when
\* all succeed, all seven files are written before the install starts.
C13_WritesJoin == []C13_State /\ [][C13_NoRollback]_vars

C13_Witness ==
    /\ pc = "exited" /\ exitCode = 1
    /\ fileSt["package.json"] = "failed"
    /\ Written = {"LICENSE", ".gitignore"}
    /\ \A f \in Files \ (Written \cup {"package.json"}) : fileSt[f] = "writing"
    /\ installSt = "idle" /\ initSt = "idle"

\* the other case of C13: all seven written, the install started
C13_AllWritten ==
    /\ Written = Files /\ installSt = "running"

====
